---- MODULE Spec2Model ----
(***************************************************************************)
(* The pipeline of flawlesst-api: the CloneExplodeStateMachine             *)
(* (CloneRepoTask -> ExplodeRepoTask -> StartAnalysisAfterExplodeTask),    *)
(* the explode-repo Lambda (Unpacker), the AnalysisStateMachine            *)
(* (AnalyzeFilesMap -> AggregateResultsTask), the analyze-file Lambda      *)
(* (Unit Analyzer), the aggregate-results Lambda (Reducer), the buckets    *)
(* and the project_reports / file_analysis tables.                         *)
(*                                                                         *)
(* The specifications share the variables:                                 *)
(*   Spec          a short file list through the whole analysis, the       *)
(*                 Reducer modelled await by await;                        *)
(*   SpecAnalysis  the analysis phase alone, analyze-file on every input;  *)
(*   SpecMap       a file list longer than maxConcurrency, the Map         *)
(*                 state's iterations counted, each invocation one step;   *)
(*   SpecExplode   explode-repo alone, on every small archive;             *)
(*   SpecWorkflow  a job from its submission to the end of its analysis;   *)
(*   SpecListing   the listing and read loop of the Reducer, the result    *)
(*                 keys counted;                                           *)
(*   SpecBatches   the detail-row inserts of a report of many Verdicts;    *)
(*   SpecTruncate  analyze-file's prompt for a unit of every length;       *)
(*   SpecPrefix    the Reducer's listing over a bucket of several jobs,    *)
(*                 the keys character by character.                        *)
(***************************************************************************)
EXTENDS Integers, Sequences, FiniteSets, TLC

\* ------------------------------------------------------------------ bounds
MaxItems == 2          \* longest filePaths list of Spec
MaxPaths == 52         \* longest filePaths list of SpecMap
MaxEntries == 2        \* most entries of an archive of SpecExplode
MaxStored == 1001      \* most result keys under the prefix in SpecListing
MaxRecords == 101      \* most parsed Verdicts of a report in SpecBatches
MaxContent == 50001    \* most characters of a unit's content in SpecTruncate
MaxObjects == 2        \* most objects of the bucket in SpecPrefix

\* ------------------------------------------------------- program constants
maxConcurrency == 50   \* AnalyzeFilesMap
batchSize == 50        \* aggregate-results, detail rows per insert
MaxKeys == 1000        \* S3 ListObjectsV2: most keys one call returns
maxContentLength == 50000  \* analyze-file, characters of content in a prompt

\* One job: the identifiers the state machine hands to every Lambda.
userId == "u1"
projectId == "p1"
jobExecutionId == "exec1"

\* A string the program takes apart (a path, a key) is the sequence of its
\* pieces: names, "." and "/".
\* The unit paths of the job, in key order.
PathList == << <<"a", ".", "ts">>, <<"b", ".", "ts">> >>
Paths == {PathList[k] : k \in 1 .. Len(PathList)}

VARIABLES
  filePaths,        \* the items of the input $.filePaths not yet dispatched
  numPaths,         \* length of the list the Map state iterates over
  execState,        \* state of the AnalysisStateMachine execution
  dispatched,       \* Map iterations started so far (the Map starts them in order)
  inFlight,         \* Map iterations whose AnalyzeFileTask is running
  iterSucceeded,    \* Map iterations whose AnalyzeFileTask returned
  iterFailed,       \* Map iterations whose AnalyzeFileTask failed
  aggregateInvoked, \* the AggregateResultsTask has invoked the Reducer
  inv,              \* Spec: the analyze-file invocation of each iteration
  results,          \* RESULTS_BUCKET: set of objects [key, body]
  lastWriter,       \* history: per result key, the puts landed and the last one's run
  agg,              \* Spec: the aggregate-results invocation
  project_reports,  \* table project_reports: sequence of inserted rows
  file_analysis,    \* table file_analysis: sequence of inserted batches
  projectExists,    \* table projects holds a row for projectId
  wf,               \* the CloneExplodeStateMachine execution of the job
  explode,          \* the explode-repo invocation of that execution
  source,           \* SOURCE_BUCKET: keys of the objects explode-repo wrote
  listing,          \* the Reducer's listing and read loop (SpecListing, SpecPrefix)
  unit              \* SpecTruncate: the content analyze-file fetched and sent

vars == <<filePaths, numPaths, execState, dispatched, inFlight, iterSucceeded,
          iterFailed, aggregateInvoked, inv, results, lastWriter, agg,
          project_reports, file_analysis, projectExists,
          wf, explode, source, listing, unit>>

sfnVars == <<numPaths, execState, dispatched, inFlight, iterSucceeded,
             iterFailed, aggregateInvoked>>
dbVars == <<project_reports, file_analysis, projectExists>>
unpackVars == <<wf, explode, source, listing, unit>>
analysisVars == <<filePaths, numPaths, execState, dispatched, inFlight,
                  iterSucceeded, iterFailed, aggregateInvoked, inv, results,
                  lastWriter, agg, project_reports, file_analysis,
                  projectExists>>

\* ------------------------------------------------------------ JSON values
\* A JSON number n, a value that is not a number, an array, a missing field.
Num(n) == [type |-> "number", val |-> n, items |-> <<>>]
NotNum == [type |-> "string", val |-> 0, items |-> <<>>]
Arr(s) == [type |-> "array", val |-> 0, items |-> s]
Undefined == [type |-> "undefined", val |-> 0, items |-> <<>>]

\* A free-text string built from a template and the text spliced into it.
Text(template, detail) == <<template, detail>>

Min(a, b) == IF a < b THEN a ELSE b

IsNumber(x) == x.type = "number"
IsIterable(x) == x.type = "array"


\* ---------------------------------------------------------------- Verdicts
\* AnalysisResult (analyze-file) / FileAnalysis (aggregate-results).
Verdict(fn, sc, ht, tt, obs) ==
  [file_name |-> fn, automation_score |-> sc, has_tests |-> ht,
   test_type |-> tt, observations |-> obs,
   improvement_suggestions |-> Arr(<<Text("suggestion", "")>>)]

\* The validation without its upper limit.
ValidScoreNoUpperLimit(analysisResult) ==
  /\ IsNumber(analysisResult.automation_score)
  /\ ~ (analysisResult.automation_score.val < 0)

\* analyze-file, the validation of the classifier's answer.
ValidScore(analysisResult) ==
  /\ IsNumber(analysisResult.automation_score)
  /\ ~ (analysisResult.automation_score.val < 0)
  /\ ~ (analysisResult.automation_score.val > 10)

\* What the classifier can answer for one prompt: bedrock.send throws, the
\* text is not JSON, the text is the JSON value null, or the text is a JSON
\* object of any shape (no field of it is under the program's control).
ClassifierObjects(fileName) ==
  { Verdict(fileName, NotNum, FALSE, "none", Arr(<<Text("obs", "")>>)),
    Verdict(fileName, Undefined, FALSE, "none", Arr(<<Text("obs", "")>>)),
    Verdict(fileName, Num(0 - 1), FALSE, "none", Arr(<<Text("obs", "")>>)),
    Verdict(fileName, Num(11), TRUE, "unit", Arr(<<Text("obs", "")>>)),
    Verdict(fileName, Num(10), TRUE, "unit", Arr(<<Text("obs", "")>>)),
    Verdict(fileName, Num(5), FALSE, "none", Arr(<<Text("obs", "")>>)),
    Verdict(fileName, Num(0), FALSE, "none", Arr(<<Text("obs", "")>>)),
    Verdict(fileName, Num(5), TRUE, "integration", Undefined),
    Verdict(<<"other", ".", "ts">>, Num(10), FALSE, "bogus", Arr(<<Text("obs", "")>>)) }

ClassifierResponses(fileName) ==
  { [kind |-> k, value |-> Verdict(fileName, Undefined, FALSE, "none", Undefined)] :
      k \in {"throw", "badjson", "null"} }
  \cup { [kind |-> "object", value |-> v] : v \in ClassifierObjects(fileName) }

\* The answers that differ in what the Reducer makes of the stored Verdict.
ReducerRelevantResponses(fileName) ==
  { r \in ClassifierResponses(fileName) :
      \/ r.kind = "throw"
      \/ r.kind = "object" /\ ValidScore(r.value) /\ r.value.automation_score.val # 0 }

FetchOutcomes == {"ok", "error", "empty"}

\* analyze-file, the default failed analysis result of the catch block.
FailedResult(fileName, message) ==
  [file_name |-> fileName, automation_score |-> Num(0), has_tests |-> FALSE,
   test_type |-> "none",
   observations |-> Arr(<<Text("Analysis failed: ", message)>>),
   improvement_suggestions |-> Arr(<<Text("Fix analysis errors and retry", "")>>)]

\* The error the try block of analyze-file raises, "" when it raises none.
\* fetch is the outcome of the GetObject on the source bucket.
TryError(fetch, response) ==
  IF fetch = "error" THEN "S3 GetObject failed"
  ELSE IF fetch = "empty" THEN "Empty file stream received from S3"
  ELSE IF response.kind = "throw" THEN "Bedrock invocation failed"
  ELSE IF response.kind = "badjson" THEN "Invalid JSON response from AI"
  ELSE IF response.kind = "null" THEN "TypeError: cannot read properties of null"
  ELSE IF ~ ValidScore(response.value) THEN "Invalid automation_score in AI response"
  ELSE ""

\* ---------------------------------------------------------- result storage
\* resultKey of analyze-file: userId/projectId/analysis-results/jobExecutionId/fileName.json
ResultKey(u, p, j, fileName) == <<u, p, "analysis-results", j, fileName, ".json">>

\* reportKey of aggregate-results.
ReportKey(u, p, j) == <<u, p, "final-reports", j, "master-report", ".json">>

\* resultsPrefix of aggregate-results.
ResultsPrefix(u, p, j) == <<u, p, "analysis-results", j>>

\* A store that keeps the former object of the key next to the new one.
PutObjectKeepsFormer(bucket, key, body) ==
  bucket \cup {[key |-> key, body |-> body]}

\* S3 PutObject: the object of that key is replaced.
PutObject(bucket, key, body) ==
  {o \in bucket : o.key # key} \cup {[key |-> key, body |-> body]}

ObjectsAt(bucket, key) == {o \in bucket : o.key = key}


\* ------------------------------------------------- analyze-file invocations
NoVerdict == Verdict(<<>>, Undefined, FALSE, "none", Undefined)

\* pc: idle -> running -> returned | raised | timedout, then done once the
\*     task has taken the outcome (AnalyzeFileTask discards the output,
\*     resultPath DISCARD).
\* puts: PutObject requests the run issued.
\* retried: the PutObject of the try block failed.
IdleInv == [pc |-> "idle", fileName |-> <<>>, puts |-> 0, retried |-> FALSE]

DoneInv == [IdleInv EXCEPT !.pc = "done"]

Items == 1 .. MaxItems

Running(i) == inv[i].pc = "running"

EventKey(i) == ResultKey(userId, projectId, jobExecutionId, inv[i].fileName)

\* AnalyzeFilesMap without its maxConcurrency.
MapCanStartUnbounded ==
  /\ execState = "AnalyzeFilesMap"
  /\ dispatched < numPaths

\* AnalyzeFilesMap: the next item of the list is handed to AnalyzeFileTask
\* while fewer than maxConcurrency iterations are running.
MapCanStart ==
  /\ execState = "AnalyzeFilesMap"
  /\ dispatched < numPaths
  /\ inFlight < maxConcurrency

MapStart ==
  /\ MapCanStart
  /\ dispatched' = dispatched + 1
  /\ inFlight' = inFlight + 1
  /\ UNCHANGED <<numPaths, execState, iterSucceeded, iterFailed, aggregateInvoked>>

MapStartIteration ==
  /\ MapStart
  /\ inv' = [inv EXCEPT ![dispatched + 1] =
               [IdleInv EXCEPT !.pc = "running", !.fileName = Head(filePaths)]]
  /\ filePaths' = Tail(filePaths)
  /\ UNCHANGED <<results, lastWriter, agg>>
  /\ UNCHANGED dbVars
  /\ UNCHANGED unpackVars

\* analyze-file handler, one run from the GetObject to the return.
\* The try block: GetObject, truncation, callBedrock, validation, PutObject
\* of the analysis result, return of the analysis result.  Any error goes to
\* the catch block: PutObject of the failed result (an error of that
\* PutObject is logged and dropped), return of the failed result.
\* The run touches shared state in its PutObject only, so it is one step;
\* a PutObject that fails leaves the bucket as it was.
\*   tryError  the error raised before the PutObject of the try block
\*   cause     the error the catch block is entered with, "" when it is not
TryPutReached(tryError) == tryError = ""

CatchCause(tryError, tryPut) ==
  IF tryError # "" THEN tryError
  ELSE IF tryPut = "fail" THEN "S3 PutObject failed"
  ELSE ""

\* The body of the PutObject that lands, and whether one lands.
PutLands(cause, catchPut) == cause = "" \/ catchPut = "ok"

\* A catch block that saves the analysis result it was left with.
PutBodyAnalysisResult(fileName, response, cause) == response.value

PutBody(fileName, response, cause) ==
  IF cause = "" THEN response.value ELSE FailedResult(fileName, cause)

\* The value the handler returns.
HandlerOutput(fileName, response, cause) ==
  IF cause = "" THEN response.value ELSE FailedResult(fileName, cause)

\* A catch block that does not save the failed result.
PutsIssuedTryOnly(tryError, cause) ==
  IF TryPutReached(tryError) THEN 1 ELSE 0

\* The PutObject requests of the run: the one of the try block when it is
\* reached, the one of the catch block when it is entered.
PutsIssued(tryError, cause) ==
  (IF TryPutReached(tryError) THEN 1 ELSE 0) + (IF cause # "" THEN 1 ELSE 0)

\* How the run ends when nothing cuts it off.
HandlerEnd(cause, catchPut) == "returned"

\* History of a result key: the puts that landed (counted up to 2), and of
\* the run of the last one the value it returned and its cause.
Landed(h, output, cause) ==
  [count |-> Min(h.count + 1, 2), output |-> output, cause |-> cause]

AnalyzeFile_Run(i, fetch, response, tryPut, catchPut, cutOff) ==
  LET tryError == TryError(fetch, response)
      cause == CatchCause(tryError, tryPut)
      fileName == inv[i].fileName
  IN  /\ IF PutLands(cause, catchPut)
         THEN /\ results' = PutObject(results, EventKey(i),
                                      PutBody(fileName, response, cause))
              /\ lastWriter' = [lastWriter EXCEPT ![EventKey(i)] =
                   Landed(@, HandlerOutput(fileName, response, cause), cause)]
         ELSE UNCHANGED <<results, lastWriter>>
      /\ inv' = [inv EXCEPT ![i] =
           IF cutOff
           THEN [IdleInv EXCEPT !.pc = "timedout", !.fileName = fileName]
           ELSE [IdleInv EXCEPT
                   !.pc = HandlerEnd(cause, catchPut),
                   !.fileName = fileName,
                   !.puts = PutsIssued(tryError, cause),
                   !.retried = (tryError = "" /\ tryPut = "fail")]]

\* The inputs of a run: the outcome of the GetObject, the classifier's
\* answer, the outcomes of the two PutObject, the Lambda timeout striking
\* between the PutObject and the return.
AnalyzeFile_Handler(i) ==
  /\ inv[i].pc = "running"
  /\ \/ \E fetch \in FetchOutcomes \ {"ok"}, catchPut \in {"ok", "fail"}, cutOff \in BOOLEAN :
          \E response \in {r \in ClassifierResponses(inv[i].fileName) : r.kind = "throw"} :
            AnalyzeFile_Run(i, fetch, response, "ok", catchPut, cutOff)
     \/ \E response \in ClassifierResponses(inv[i].fileName), cutOff \in BOOLEAN :
          \/ AnalyzeFile_Run(i, "ok", response, "ok", "ok", cutOff)
          \/ AnalyzeFile_Run(i, "ok", response, "ok", "fail", cutOff)
          \/ /\ TryError("ok", response) = ""
             /\ \E catchPut \in {"ok", "fail"} :
                  AnalyzeFile_Run(i, "ok", response, "fail", catchPut, cutOff)
  /\ UNCHANGED <<filePaths, agg>>
  /\ UNCHANGED sfnVars
  /\ UNCHANGED dbVars
  /\ UNCHANGED unpackVars

\* The same handler in the pipeline, on the inputs that make a difference
\* to the Reducer.
AnalyzeFile_HandlerInPipeline(i) ==
  /\ inv[i].pc = "running"
  /\ \E response \in ReducerRelevantResponses(inv[i].fileName) :
       \/ AnalyzeFile_Run(i, "ok", response, "ok", "ok", FALSE)
       \/ AnalyzeFile_Run(i, "ok", response, "fail", "fail", FALSE)
  /\ UNCHANGED <<filePaths, agg>>
  /\ UNCHANGED sfnVars
  /\ UNCHANGED dbVars
  /\ UNCHANGED unpackVars

\* AnalyzeFileLambda, timeout of 2 minutes: the run is cut off before its
\* PutObject (AnalyzeFile_Handler has the cut after it).
AnalyzeFile_Timeout(i) ==
  /\ Running(i)
  /\ inv' = [inv EXCEPT ![i] = [@ EXCEPT !.pc = "timedout"]]
  /\ UNCHANGED <<filePaths, results, lastWriter, agg>>
  /\ UNCHANGED sfnVars
  /\ UNCHANGED dbVars
  /\ UNCHANGED unpackVars

\* AnalyzeFileTask: the invocation returned, the iteration has succeeded.
IterationSucceeded ==
  /\ execState = "AnalyzeFilesMap"
  /\ inFlight > 0
  /\ inFlight' = inFlight - 1
  /\ iterSucceeded' = iterSucceeded + 1
  /\ UNCHANGED <<numPaths, execState, dispatched, iterFailed, aggregateInvoked>>

AnalyzeFileTaskSucceeded(i) ==
  /\ inv[i].pc = "returned"
  /\ IterationSucceeded
  /\ inv' = [inv EXCEPT ![i] = DoneInv]
  /\ UNCHANGED <<filePaths, results, lastWriter, agg>>
  /\ UNCHANGED dbVars
  /\ UNCHANGED unpackVars

\* AnalyzeFileTask has no Catch and AnalyzeFilesMap has none: a task that
\* fails (the Lambda timed out or raised, or the invocation kept failing
\* through the retries LambdaInvoke makes on Lambda service exceptions)
\* fails the Map state, and the Map state's failure fails the execution.
IterationFailed ==
  /\ execState = "AnalyzeFilesMap"
  /\ inFlight > 0
  /\ inFlight' = inFlight - 1
  /\ iterFailed' = iterFailed + 1
  /\ execState' = "FAILED"
  /\ UNCHANGED <<numPaths, dispatched, iterSucceeded, aggregateInvoked>>

AnalyzeFileTaskFailed(i) ==
  /\ inv[i].pc \in {"timedout", "raised"}
  /\ IterationFailed
  /\ inv' = [inv EXCEPT ![i] = DoneInv]
  /\ UNCHANGED <<filePaths, results, lastWriter, agg>>
  /\ UNCHANGED dbVars
  /\ UNCHANGED unpackVars


\* The execution has ended (another iteration failed, or the state machine
\* timed out): the outcome of a run that was still going is dropped.
AnalyzeFileTaskAbandoned(i) ==
  /\ execState \in {"FAILED", "TIMED_OUT"}
  /\ inv[i].pc \in {"returned", "timedout", "raised"}
  /\ inv' = [inv EXCEPT ![i] = DoneInv]
  /\ UNCHANGED <<filePaths, results, lastWriter, agg>>
  /\ UNCHANGED sfnVars
  /\ UNCHANGED dbVars
  /\ UNCHANGED unpackVars

\* ------------------------------------------------- the content of a unit
\* A text made of the first `chars` characters of the unit's content,
\* followed or not by '\n... [Content truncated for analysis]'.
Content(n) == [chars |-> n, marker |-> FALSE]

\* String.prototype.substring(0, end) of such a text without marker.
substring(text, end) == [text EXCEPT !.chars = Min(text.chars, end)]

\* A limit that also cuts a content of exactly maxContentLength characters.
truncatedContentFromLimit(codeContent) ==
  IF codeContent.chars >= maxContentLength
  THEN [substring(codeContent, maxContentLength) EXCEPT !.marker = TRUE]
  ELSE codeContent

\* truncatedContent of the handler.
truncatedContent(codeContent) ==
  IF codeContent.chars > maxContentLength
  THEN [substring(codeContent, maxContentLength) EXCEPT !.marker = TRUE]
  ELSE codeContent

\* analyze-file from the GetObject to the classifier call, the content
\* followed: what was fetched, what was put in the prompt, what was sent.
IdleUnit ==
  [pc |-> "idle", codeContent |-> Content(0), prompt |-> Content(0),
   sent |-> Content(0)]

\* The GetObject of the unit and the read of its body, or an error of it.
Unit_Fetch ==
  /\ unit.pc = "fetch"
  /\ \/ unit' = [unit EXCEPT !.pc = "fetched"]
     \/ unit' = [unit EXCEPT !.pc = "catch"]
  /\ UNCHANGED <<wf, explode, source, listing>>
  /\ UNCHANGED analysisVars

\* generateUserPrompt(event.fileName, truncatedContent).
Unit_Prompt ==
  /\ unit.pc = "fetched"
  /\ unit' = [unit EXCEPT !.pc = "prompt",
                          !.prompt = truncatedContent(unit.codeContent)]
  /\ UNCHANGED <<wf, explode, source, listing>>
  /\ UNCHANGED analysisVars

\* callBedrock(userPrompt): the classifier is invoked with the prompt.
Unit_CallBedrock ==
  /\ unit.pc = "prompt"
  /\ unit' = [unit EXCEPT !.pc = "called", !.sent = unit.prompt]
  /\ UNCHANGED <<wf, explode, source, listing>>
  /\ UNCHANGED analysisVars

\* ------------------------------------------------------ relational tables
NaN == [type |-> "NaN", val |-> 0, items |-> <<>>]

\* A row of project_reports.  average_score is kept in tenths (DECIMAL(3,1)).
ReportRow(id, overall, summary, total, withTests, average) ==
  [id |-> id, project_id |-> projectId, overall_score |-> overall,
   summary |-> summary, total_files |-> total, files_with_tests |-> withTests,
   average_score |-> average]

\* A summary is the sequence of its lines.
NoRow == ReportRow(0, Num(0), <<>>, 0, 0, Num(0))

\* schema.sql, project_reports: overall_score INTEGER NOT NULL CHECK 0..100,
\* average_score DECIMAL(3,1) NOT NULL CHECK 0..10 (NaN is sent as null).
ReportRowValid(r) ==
  /\ IsNumber(r.overall_score)
  /\ r.overall_score.val >= 0 /\ r.overall_score.val <= 100
  /\ IsNumber(r.average_score)
  /\ r.average_score.val >= 0 /\ r.average_score.val <= 100

\* schema.sql, file_analysis: score INTEGER NOT NULL CHECK 0..10,
\* test_type CHECK IN (unit, integration, e2e, none), file_path NOT NULL.
FileRecordValid(r) ==
  /\ IsNumber(r.score) /\ r.score.val >= 0 /\ r.score.val <= 10
  /\ r.test_type \in {"unit", "integration", "e2e", "none"}

\* ------------------------------------------------------- aggregate-results
\* allScores.reduce((a, b) => a + b, 0).  The scores of the model are
\* integers, whose sum does not depend on the grouping: the list is summed
\* by halves.
RECURSIVE Sum(_)
Sum(s) ==
  IF Len(s) = 0 THEN 0
  ELSE IF Len(s) = 1 THEN s[1]
  ELSE LET half == Len(s) \div 2
       IN  Sum(SubSeq(s, 1, half)) + Sum(SubSeq(s, half + 1, Len(s)))

\* Math.round(n / d) for d > 0: halves go up.
MathRound(n, d) == (2 * n + d) \div (2 * d)

\* overallScore without the scaling to 0..100: Math.round(averageScore).
OverallScoreUnscaled(allScores) ==
  IF Len(allScores) = 0 THEN NaN
  ELSE Num(MathRound(Sum(allScores), Len(allScores)))

\* overallScore = Math.round(averageScore * 10), averageScore the mean of
\* allScores; 0 / 0 is NaN.
OverallScore(allScores) ==
  IF Len(allScores) = 0 THEN NaN
  ELSE Num(MathRound(10 * Sum(allScores), Len(allScores)))

\* average_score = Math.round(averageScore * 10) / 10, in tenths.
AverageScore(allScores) ==
  IF Len(allScores) = 0 THEN NaN
  ELSE Num(MathRound(10 * Sum(allScores), Len(allScores)))

FilesWithTests(analyses) ==
  Cardinality({k \in 1 .. Len(analyses) : analyses[k].has_tests})

\* reportData of the handler.
ReportData(analyses, allScores, summaryText) ==
  ReportRow(0, OverallScore(allScores), summaryText, Len(analyses),
            FilesWithTests(analyses), AverageScore(allScores))

\* failureReport of the catch block.
FailureReport(message) ==
  ReportRow(0, Num(0), <<Text("Analysis failed: ", message)>>, 0, 0, Num(0))

\* fileRecords of the handler.
FileRecord(reportId, analysis) ==
  [report_id |-> reportId, file_path |-> analysis.file_name,
   score |-> analysis.automation_score, has_tests |-> analysis.has_tests,
   test_type |-> analysis.test_type,
   suggestions |-> analysis.improvement_suggestions]

FileRecords(reportId, analyses) ==
  [k \in 1 .. Len(analyses) |-> FileRecord(reportId, analyses[k])]

\* A slice that takes the element at its end index too.
SliceInclusive(s, i, j) == SubSeq(s, i + 1, Min(j + 1, Len(s)))

\* fileRecords.slice(i, i + batchSize), i counted from 0.
Slice(s, i, j) == SubSeq(s, i + 1, Min(j, Len(s)))

\* One ListObjectsV2 call with Prefix resultsPrefix, filtered on keys ending
\* in .json: the keys of the bucket under the prefix, in key order.  The
\* call is made once, without ContinuationToken: it returns the first
\* MaxKeys keys.
ListResultFiles(bucket, u, p, j) ==
  LET keys == {o.key : o \in {b \in bucket :
                 /\ SubSeq(b.key, 1, 4) = ResultsPrefix(u, p, j)
                 /\ b.key[Len(b.key)] = ".json"}}
  IN  Slice(SelectSeq([k \in 1 .. Len(PathList) |->
                        ResultKey(u, p, j, PathList[k])],
                      LAMBDA key : key \in keys), 0, MaxKeys)

\* pc: idle -> list -> read -> project -> insertReport -> batches
\*     -> returned, catch from any of them, catch -> returned | raised,
\*     timedout from any point of a run.
\* error: the error the catch block was entered with, "" when it was not.
\* parsed: analyses.length when the try block was left.
\* output: the report the handler returned.
IdleAgg ==
  [pc |-> "idle", resultFiles |-> <<>>, idx |-> 1, analyses |-> <<>>,
   allObservations |-> <<>>, allScores |-> <<>>, summarizer |-> "",
   summaryText |-> <<>>, report |-> NoRow, i |-> 0, error |-> "", parsed |-> 0, output |-> NoRow]

AggRunning ==
  agg.pc \in {"list", "read", "project", "insertReport", "batches", "catch"}

\* The catch block of the handler is entered with this error; it uses
\* nothing else of the try block.
Throw(message) ==
  [IdleAgg EXCEPT !.pc = "catch", !.error = message, !.parsed = Len(agg.analyses)]

\* What the summarizer can do: answer with the JSON asked for ("ai"), with
\* text that is not JSON ("mixed"), with JSON of another shape, without a
\* summary array ("badshape"), or the call throws ("fallback").
SummarizerOutcomes == {"ai", "mixed", "fallback", "badshape"}

\* generateSummaryPrompt: what generateFallbackSummary reads back from the
\* prompt, `Total files analyzed: ${scores.length}` and
\* `Average automation score: ${avgScore.toFixed(1)}/10`, the mean in tenths.
generateSummaryPrompt(observations, scores) ==
  [total |-> Len(scores), average |-> AverageScore(scores)]

\* generateFallbackSummary.  The mean is matched with [\d.]+, which "NaN"
\* does not match: avgScore is then 5.0.
generateFallbackSummary(prompt) ==
  LET avgScore == IF IsNumber(prompt.average) THEN prompt.average.val ELSE 50
      totalFiles == prompt.total
  IN  << IF avgScore >= 80
         THEN Text("Strong test automation maturity across the codebase", "")
         ELSE IF avgScore >= 60
         THEN Text("Moderate test automation coverage with room for improvement", "")
         ELSE Text("Test automation needs significant enhancement", ""),
         Text("Analyzed files with average score of", <<totalFiles, avgScore>>) >>
      \o IF avgScore < 70
         THEN << Text("Focus on increasing test coverage and automation", ""),
                 Text("Consider implementing test-driven development practices", "") >>
         ELSE << Text("Maintain current testing standards and optimize existing tests", "") >>

\* callBedrockForSummary, the summary array it returns.
callBedrockForSummary(prompt, outcome) ==
  CASE outcome = "ai" -> << Text("bullet point of the model", "") >>
    [] outcome = "mixed" -> << Text("Analysis completed with mixed results", "") >>
    [] outcome = "fallback" -> generateFallbackSummary(prompt)

\* A Map state that moves on as soon as it has handed out its last item.
MapSucceededWhenDispatched ==
  /\ execState = "AnalyzeFilesMap"
  /\ dispatched = numPaths
  /\ execState' = "AggregateResultsTask"
  /\ aggregateInvoked' = TRUE
  /\ UNCHANGED <<numPaths, dispatched, inFlight, iterSucceeded, iterFailed>>

\* AnalyzeFilesMap has succeeded: the execution moves to
\* AggregateResultsTask, which invokes aggregate-results.
MapSucceeded ==
  /\ execState = "AnalyzeFilesMap"
  /\ iterSucceeded = numPaths
  /\ execState' = "AggregateResultsTask"
  /\ aggregateInvoked' = TRUE
  /\ UNCHANGED <<numPaths, dispatched, inFlight, iterSucceeded, iterFailed>>

MapStateSucceeded ==
  /\ MapSucceeded
  /\ agg' = [IdleAgg EXCEPT !.pc = "list"]
  /\ UNCHANGED <<filePaths, inv, results, lastWriter>>
  /\ UNCHANGED dbVars
  /\ UNCHANGED unpackVars

\* aggregate-results handler: list the result files of the job.
Aggregate_List ==
  /\ agg.pc = "list"
  /\ \/ agg' = Throw("S3 ListObjectsV2 failed")
     \/ LET resultFiles == ListResultFiles(results, userId, projectId, jobExecutionId)
        IN  agg' = IF Len(resultFiles) = 0
                   THEN Throw("No analysis results found to aggregate")
                   ELSE [agg EXCEPT !.pc = "read", !.resultFiles = resultFiles]
  /\ UNCHANGED <<filePaths, inv, results, lastWriter>>
  /\ UNCHANGED sfnVars
  /\ UNCHANGED dbVars
  /\ UNCHANGED unpackVars

\* aggregate-results handler: one turn of the read loop.  A GetObject that
\* fails skips the key.  A parsed analysis is pushed on analyses first; the
\* spread of its observations throws when they are not iterable, and the
\* loop's catch then skips the rest of the turn.
Aggregate_Read ==
  /\ agg.pc = "read"
  /\ agg.idx <= Len(agg.resultFiles)
  /\ \/ agg' = [agg EXCEPT !.idx = @ + 1]
     \/ \E o \in ObjectsAt(results, agg.resultFiles[agg.idx]) :
          LET analysis == o.body IN
            agg' = IF IsIterable(analysis.observations)
                   THEN [agg EXCEPT
                           !.idx = @ + 1,
                           !.analyses = Append(@, analysis),
                           !.allObservations = @ \o analysis.observations.items,
                           !.allScores = Append(@, analysis.automation_score.val)]
                   ELSE [agg EXCEPT
                           !.idx = @ + 1,
                           !.analyses = Append(@, analysis)]
  /\ UNCHANGED <<filePaths, inv, results, lastWriter>>
  /\ UNCHANGED sfnVars
  /\ UNCHANGED dbVars
  /\ UNCHANGED unpackVars

\* aggregate-results handler: after the loop, the metrics and the summary.
\* aiSummary.summary.join throws when the summary array is missing.
Aggregate_Summarize ==
  /\ agg.pc = "read"
  /\ agg.idx > Len(agg.resultFiles)
  /\ \/ /\ Len(agg.analyses) = 0
        /\ agg' = Throw("Failed to read any valid analysis results")
     \/ /\ Len(agg.analyses) > 0
        /\ \E outcome \in SummarizerOutcomes :
             agg' = IF outcome = "badshape"
                    THEN Throw("TypeError: cannot read properties of undefined")
                    ELSE [agg EXCEPT
                           !.pc = "project",
                           !.summarizer = outcome,
                           !.summaryText = callBedrockForSummary(
                              generateSummaryPrompt(agg.allObservations,
                                                    agg.allScores), outcome)]
  /\ UNCHANGED <<filePaths, inv, results, lastWriter>>
  /\ UNCHANGED sfnVars
  /\ UNCHANGED dbVars
  /\ UNCHANGED unpackVars

\* aggregate-results handler: the project is looked up and created when the
\* lookup finds none or fails; a failed creation throws.
Aggregate_Project ==
  /\ agg.pc = "project"
  /\ \/ /\ projectExists
        /\ agg' = [agg EXCEPT !.pc = "insertReport"]
        /\ UNCHANGED projectExists
     \/ /\ ~ projectExists
        /\ projectExists' = TRUE
        /\ agg' = [agg EXCEPT !.pc = "insertReport"]
     \/ /\ agg' = Throw("Failed to create project")
        /\ UNCHANGED projectExists
  /\ UNCHANGED <<filePaths, inv, results, lastWriter, project_reports, file_analysis>>
  /\ UNCHANGED sfnVars
  /\ UNCHANGED unpackVars


\* aggregate-results handler: the insert of the report row.  The table
\* rejects a row that breaks its constraints; any insert can fail.
Aggregate_InsertReport ==
  /\ agg.pc = "insertReport"
  /\ LET reportData == ReportData(agg.analyses, agg.allScores, agg.summaryText)
         report == [reportData EXCEPT !.id = Len(project_reports) + 1]
     IN  \/ /\ ReportRowValid(reportData)
            /\ projectExists
            /\ project_reports' = Append(project_reports, report)
            /\ agg' = [agg EXCEPT !.pc = "batches", !.report = report, !.i = 0]
         \/ /\ ~ ReportRowValid(reportData)
            /\ agg' = Throw("Failed to create project report: constraint violated")
            /\ UNCHANGED project_reports
         \/ /\ agg' = Throw("Failed to create project report: database error")
            /\ UNCHANGED project_reports
  /\ UNCHANGED <<filePaths, inv, results, lastWriter, file_analysis, projectExists>>
  /\ UNCHANGED sfnVars
  /\ UNCHANGED unpackVars

\* aggregate-results handler: one turn of the batch loop.  An insert that
\* fails is logged and the loop goes on.
Aggregate_InsertBatch ==
  /\ agg.pc = "batches"
  /\ agg.i < Len(agg.analyses)
  /\ LET fileRecords == FileRecords(agg.report.id, agg.analyses)
         batch == Slice(fileRecords, agg.i, agg.i + batchSize)
     IN  \/ /\ {k \in 1 .. Len(batch) : ~ FileRecordValid(batch[k])} = {}
            /\ file_analysis' = Append(file_analysis, batch)
         \/ UNCHANGED file_analysis
  /\ agg' = [agg EXCEPT !.i = @ + batchSize]
  /\ UNCHANGED <<filePaths, inv, results, lastWriter, project_reports, projectExists>>
  /\ UNCHANGED sfnVars
  /\ UNCHANGED unpackVars

\* aggregate-results handler: the backup of the final report in the results
\* bucket, then the return of the report.  A failed PutObject throws.
Aggregate_Backup ==
  /\ agg.pc = "batches"
  /\ agg.i >= Len(agg.analyses)
  /\ \/ /\ results' = PutObject(results,
                        ReportKey(userId, projectId, jobExecutionId),
                        [report |-> agg.report, file_analyses |-> agg.analyses,
                         job_execution_id |-> jobExecutionId])
        /\ agg' = [IdleAgg EXCEPT !.pc = "returned", !.output = agg.report,
                                   !.parsed = Len(agg.analyses)]
     \/ /\ agg' = Throw("S3 PutObject failed")
        /\ UNCHANGED results
  /\ UNCHANGED <<filePaths, inv, lastWriter>>
  /\ UNCHANGED sfnVars
  /\ UNCHANGED dbVars
  /\ UNCHANGED unpackVars

\* aggregate-results handler, the catch block: the failure report is
\* inserted and returned; when that insert fails the error is thrown again.
Aggregate_Catch ==
  /\ agg.pc = "catch"
  /\ LET report == [FailureReport(agg.error) EXCEPT !.id = Len(project_reports) + 1]
     IN  \/ /\ projectExists
            /\ project_reports' = Append(project_reports, report)
            /\ agg' = [agg EXCEPT !.pc = "returned", !.output = report]
         \/ /\ agg' = [agg EXCEPT !.pc = "raised"]
            /\ UNCHANGED project_reports
  /\ UNCHANGED <<filePaths, inv, results, lastWriter, file_analysis, projectExists>>
  /\ UNCHANGED sfnVars
  /\ UNCHANGED unpackVars

\* AggregateResultsLambda, timeout of 10 minutes.
Aggregate_Timeout ==
  /\ AggRunning
  /\ agg' = [IdleAgg EXCEPT !.pc = "timedout"]
  /\ UNCHANGED <<filePaths, inv, results, lastWriter>>
  /\ UNCHANGED sfnVars
  /\ UNCHANGED dbVars
  /\ UNCHANGED unpackVars

\* AggregateResultsTask is the last state: its outcome ends the execution.
AggregateEnded(outcome) ==
  /\ execState = "AggregateResultsTask"
  /\ execState' = outcome
  /\ UNCHANGED <<numPaths, dispatched, inFlight, iterSucceeded, iterFailed,
                 aggregateInvoked>>

AggregateTaskSucceeded ==
  /\ agg.pc = "returned"
  /\ AggregateEnded("SUCCEEDED")
  /\ UNCHANGED <<filePaths, inv, results, lastWriter, agg>>
  /\ UNCHANGED dbVars
  /\ UNCHANGED unpackVars

AggregateTaskFailed ==
  /\ agg.pc \in {"raised", "timedout"}
  /\ AggregateEnded("FAILED")
  /\ UNCHANGED <<filePaths, inv, results, lastWriter, agg>>
  /\ UNCHANGED dbVars
  /\ UNCHANGED unpackVars

\* AnalysisStateMachine, timeout of 30 minutes: the execution is ended where
\* it is; no further state is entered.
ExecutionTimeout ==
  /\ execState \in {"AnalyzeFilesMap", "AggregateResultsTask"}
  /\ execState' = "TIMED_OUT"
  /\ UNCHANGED <<filePaths, numPaths, dispatched, inFlight, iterSucceeded,
                 iterFailed, aggregateInvoked, inv, results, lastWriter, agg>>
  /\ UNCHANGED dbVars
  /\ UNCHANGED unpackVars

\* ------------------------------------------------------------ input lists
RECURSIVE SeqsUpTo(_, _)
SeqsUpTo(S, n) ==
  IF n = 0 THEN {<<>>}
  ELSE LET shorter == SeqsUpTo(S, n - 1)
       IN  shorter \cup {Append(q, x) : q \in shorter, x \in S}

AllResultKeys == {ResultKey(userId, projectId, jobExecutionId, f) : f \in Paths}

\* ---------------------------------------------------------------- strings
\* String.prototype.toLowerCase, piece by piece.
Lower(piece) ==
  CASE piece = "TS" -> "ts"
    [] piece = "Dist" -> "dist"
    [] OTHER -> piece

toLowerCase(s) == [k \in 1 .. Len(s) |-> Lower(s[k])]

\* String.prototype.includes: sub occurs in s at some position.
includes(s, sub) ==
  \E k \in 0 .. (Len(s) - Len(sub)) : SubSeq(s, k + 1, k + Len(sub)) = sub

\* String.prototype.lastIndexOf, counted from 1; 0 when piece does not occur.
lastIndexOf(s, piece) ==
  LET at == {k \in 1 .. Len(s) : s[k] = piece}
  IN  IF at = {} THEN 0 ELSE CHOOSE k \in at : \A m \in at : m <= k

\* path.basename: what follows the last "/".
basename(p) == SubSeq(p, lastIndexOf(p, "/") + 1, Len(p))

\* path.extname: from the last "." of the basename to its end; empty when
\* the basename has no "." or its only "." is its first character.
extname(p) ==
  LET base == basename(p)
      dot == lastIndexOf(base, ".")
  IN  IF dot <= 1 THEN <<>> ELSE SubSeq(base, dot, Len(base))

\* String.prototype.replace(sub, ''): the first occurrence of sub is removed.
replace(s, sub) ==
  LET at == {k \in 0 .. (Len(s) - Len(sub)) : SubSeq(s, k + 1, k + Len(sub)) = sub}
  IN  IF at = {} THEN s
      ELSE LET k == CHOOSE m \in at : \A n \in at : m <= n
           IN  SubSeq(s, 1, k) \o SubSeq(s, k + Len(sub) + 1, Len(s))


\* ------------------------------------------------------------ explode-repo
INCLUDE_EXTENSIONS ==
  {<<".", e>> : e \in {"ts", "js", "jsx", "tsx", "py", "java", "go", "rb", "php",
                       "cs", "json", "yaml", "yml", "toml", "env", "gitignore",
                       "dockerignore", "html", "css", "scss", "less", "md",
                       "txt", "rst", "sh", "bash", "zsh"}}

\* The directory names of EXCLUDE_DIRS.
ExcludedDirNames ==
  {<<"node_modules">>, <<".", "git">>, <<".", "github">>, <<".", "vscode">>,
   <<".", "idea">>, <<"dist">>, <<"build">>, <<"coverage">>, <<".", "next">>,
   <<".", "nuxt">>, <<".", "svelte-kit">>, <<".", "vercel">>,
   <<".", "netlify">>}

\* EXCLUDE_DIRS: every name lower-cased and followed by '/'.
EXCLUDE_DIRS == {toLowerCase(dir) \o <<"/">> : dir \in ExcludedDirNames}

File(p) == [type |-> "File", path |-> p]
Directory(p) == [type |-> "Directory", path |-> p]

\* onentry up to the read of the content: TRUE when the entry is kept.
Included(entry) ==
  LET lowerPath == toLowerCase(entry.path)
      ext == toLowerCase(extname(entry.path))
  IN  /\ entry.type = "File"
      /\ ~ \E dir \in EXCLUDE_DIRS : includes(lowerPath, dir)
      /\ ~ (ext # <<>> /\ ext \notin INCLUDE_EXTENSIONS)

\* s3Key of onentry.
SourceKey(u, p, relativePath) == <<u, "/", p, "/">> \o relativePath

\* filePaths of the handler: the prefix is cut off every uploaded key.
RelativePaths(uploadedFiles, u, p) ==
  [k \in 1 .. Len(uploadedFiles) |-> replace(uploadedFiles[k], <<u, "/", p, "/">>)]

\* The entries an archive of the model is made of.
EntryUniverse ==
  {File(PathList[1]), File(PathList[2]),
   File(<<"src", "/", "c", ".", "TS">>),
   File(<<"Makefile">>),
   File(<<"dist", "/", "a", ".", "js">>),
   File(<<"my", "dist", "/", "a", ".", "ts">>),
   File(<<"a", ".", "exe">>),
   Directory(<<"src", "/">>)}

\* Three kept files, one file under an excluded directory and one file of a
\* disallowed extension.
ScenarioArchive ==
  <<File(PathList[1]), File(<<"dist", "/", "a", ".", "js">>), File(PathList[2]),
    File(<<"a", ".", "exe">>), File(<<"src", "/", "c", ".", "TS">>)>>

\* An archive names a path once.
PathUnique(archive) ==
  \A m, n \in 1 .. Len(archive) : archive[m].path = archive[n].path => m = n

Archives ==
  {a \in SeqsUpTo(EntryUniverse, MaxEntries) : PathUnique(a)} \cup {ScenarioArchive}

\* The archives of the jobs that are followed into the analysis: their kept
\* paths are paths of PathList.
JobArchives ==
  {a \in Archives : \A k \in 1 .. Len(a) : Included(a[k]) => a[k].path \in Paths}

\* A defect of the stored archive: none, a corrupt gzip stream or a corrupt
\* tar frame, met after `at` entries.
NoDefect == [kind |-> "none", at |-> 0]
Defects(archive) ==
  {NoDefect} \cup [kind : {"gzip", "tar"}, at : 0 .. Len(archive)]

IdleExplode ==
  [pc |-> "idle", archive |-> <<>>, defect |-> NoDefect, idx |-> 0,
   reading |-> <<>>, files |-> <<>>, uploads |-> <<>>, filePaths |-> <<>>]

\* The entries tar.t hands to onentry.  tar.t is a parse operation and is
\* not given `strict`: a frame it cannot read is a warning and the entries
\* it got before are kept; what follows the frame is not delivered here.
Delivered == IF explode.defect.kind = "none" THEN Len(explode.archive)
             ELSE explode.defect.at

\* GetObject of the archive: the stream is opened, or the call throws and
\* the catch block throws on.
Explode_Start ==
  /\ explode.pc = "start"
  /\ \/ explode' = [explode EXCEPT !.pc = "pipeline"]
     \/ explode' = [explode EXCEPT !.pc = "raised"]
  /\ UNCHANGED <<wf, source, listing, unit>>
  /\ UNCHANGED analysisVars

\* tar.t calls onentry on the next entry.  A kept entry begins the read of
\* its content; the call returns a promise that nothing awaits.
Explode_Entry ==
  /\ explode.pc = "pipeline"
  /\ explode.idx < Delivered
  /\ LET entry == explode.archive[explode.idx + 1]
     IN  explode' = [explode EXCEPT
           !.idx = @ + 1,
           !.reading = IF Included(entry)
                       THEN Append(@, SourceKey(userId, projectId, entry.path))
                       ELSE @]
  /\ UNCHANGED <<wf, source, listing, unit>>
  /\ UNCHANGED analysisVars

\* The content of an entry is read to its end: files.push.
Explode_EntryRead ==
  /\ explode.pc = "pipeline"
  /\ explode.reading # <<>>
  /\ explode' = [explode EXCEPT !.reading = Tail(@),
                                !.files = Append(@, Head(explode.reading))]
  /\ UNCHANGED <<wf, source, listing, unit>>
  /\ UNCHANGED analysisVars

\* await pipeline(...) is over.  A corrupt gzip stream rejects it and the
\* catch block throws on.  Otherwise every file of `files` gets its
\* PutObject at once; a read still under way pushes into a list that is not
\* looked at again.
Explode_PipelineEnd ==
  /\ explode.pc = "pipeline"
  /\ explode.idx = Delivered
  /\ IF explode.defect.kind = "gzip"
     THEN explode' = [explode EXCEPT !.pc = "raised", !.reading = <<>>,
                                     !.files = <<>>]
     ELSE explode' = [explode EXCEPT
            !.pc = "upload", !.reading = <<>>,
            !.uploads = [k \in 1 .. Len(explode.files) |-> "pending"]]
  /\ UNCHANGED <<wf, source, listing, unit>>
  /\ UNCHANGED analysisVars

\* One PutObject settles: the object is stored and the promise yields the
\* key, or the call fails and the promise yields null.
Explode_PutObject(k) ==
  /\ explode.pc = "upload"
  /\ explode.uploads[k] = "pending"
  /\ \/ /\ explode' = [explode EXCEPT !.uploads[k] = "stored"]
        /\ source' = source \cup {explode.files[k]}
     \/ /\ explode' = [explode EXCEPT !.uploads[k] = "null"]
        /\ UNCHANGED source
  /\ UNCHANGED <<wf, listing, unit>>
  /\ UNCHANGED analysisVars

\* The keys of every promise, settled either way.
UploadedFilesUnfiltered ==
  explode.files

\* (await Promise.all(uploadPromises)).filter(Boolean), in the order of
\* `files`.
UploadedFiles ==
  LET stored == {k \in 1 .. Len(explode.files) : explode.uploads[k] = "stored"}
      Pick[k \in 0 .. Len(explode.files)] ==
        IF k = 0 THEN <<>>
        ELSE IF k \in stored THEN Append(Pick[k - 1], explode.files[k])
             ELSE Pick[k - 1]
  IN  Pick[Len(explode.files)]

\* Promise.all is settled: the handler returns userId, projectId, filePaths.
Explode_Return ==
  /\ explode.pc = "upload"
  /\ \A k \in 1 .. Len(explode.files) : explode.uploads[k] # "pending"
  /\ explode' = [explode EXCEPT
       !.pc = "returned",
       !.filePaths = RelativePaths(UploadedFiles, userId, projectId)]
  /\ UNCHANGED <<wf, source, listing, unit>>
  /\ UNCHANGED analysisVars

\* The Lambda timeout of explode-repo ends the invocation.
Explode_Timeout ==
  /\ explode.pc \in {"pipeline", "upload"}
  /\ explode' = [explode EXCEPT !.pc = "timedout"]
  /\ UNCHANGED <<wf, source, listing, unit>>
  /\ UNCHANGED analysisVars


\* ------------------------------------------------ CloneExplodeStateMachine
\* The execution input the start-workflow handler builds, and the state the
\* execution is in.
IdleWf ==
  [state |-> "NOT_STARTED", autoStartAnalysis |-> FALSE,
   analysisStateMachineArn |-> FALSE, status |-> ""]

\* The start-workflow handler: autoStartAnalysis is the flag of the request
\* (true when the request leaves it out); analysisStateMachineArn is left
\* out of the input when the flag is false.
StartWorkflow_Handler ==
  /\ wf.state = "NOT_STARTED"
  /\ \E autoStartAnalysis \in BOOLEAN :
       wf' = [wf EXCEPT !.state = "CloneRepoTask",
                        !.autoStartAnalysis = autoStartAnalysis,
                        !.analysisStateMachineArn = autoStartAnalysis]
  /\ UNCHANGED <<explode, source, listing, unit>>
  /\ UNCHANGED analysisVars

\* CloneRepoTask: clone-repo stores the archive and ExplodeRepoTask invokes
\* explode-repo, or clone-repo throws and the execution fails.
CloneRepoTask ==
  /\ wf.state = "CloneRepoTask"
  /\ \/ /\ wf' = [wf EXCEPT !.state = "ExplodeRepoTask"]
        /\ explode' = [explode EXCEPT !.pc = "start"]
     \/ /\ wf' = [wf EXCEPT !.state = "FAILED"]
        /\ UNCHANGED explode
  /\ UNCHANGED <<source, listing, unit>>
  /\ UNCHANGED analysisVars

\* ExplodeRepoTask has no Catch: the result of explode-repo goes to
\* $.explodeResult, an error or a timeout of it fails the execution.
ExplodeRepoTask ==
  /\ wf.state = "ExplodeRepoTask"
  /\ explode.pc \in {"returned", "raised", "timedout"}
  /\ wf' = [wf EXCEPT !.state = IF explode.pc = "returned"
                                THEN "StartAnalysisAfterExplodeTask"
                                ELSE "FAILED"]
  /\ UNCHANGED <<explode, source, listing, unit>>
  /\ UNCHANGED analysisVars

\* StartAnalysisAfterExplodeTask.  Its payload takes
\* $.analysisStateMachineArn from the state input: without that field the
\* state fails before the Lambda is invoked.  The handler skips the start
\* when the flag or the ARN is missing, and otherwise starts the
\* AnalysisStateMachine on explodeResult.Payload.filePaths.
StartAnalysisAfterExplodeTask ==
  /\ wf.state = "StartAnalysisAfterExplodeTask"
  /\ IF ~ wf.analysisStateMachineArn
     THEN /\ wf' = [wf EXCEPT !.state = "FAILED", !.status = "States.Runtime"]
          /\ UNCHANGED analysisVars
     ELSE IF ~ wf.autoStartAnalysis
     THEN /\ wf' = [wf EXCEPT !.state = "SUCCEEDED", !.status = "skipped"]
          /\ UNCHANGED analysisVars
     ELSE \/ /\ wf' = [wf EXCEPT !.state = "SUCCEEDED", !.status = "started"]
             /\ execState = "NOT_STARTED"
             /\ execState' = "AnalyzeFilesMap"
             /\ filePaths' = explode.filePaths
             /\ numPaths' = Len(explode.filePaths)
             /\ UNCHANGED <<dispatched, inFlight, iterSucceeded, iterFailed,
                            aggregateInvoked, inv, results, lastWriter, agg>>
             /\ UNCHANGED dbVars
          \/ /\ wf' = [wf EXCEPT !.state = "FAILED", !.status = "error"]
             /\ UNCHANGED analysisVars
  /\ UNCHANGED <<explode, source, listing, unit>>

\* The 10 minute timeout of the CloneExplodeStateMachine.
CloneExplodeTimeout ==
  /\ wf.state \in {"CloneRepoTask", "ExplodeRepoTask",
                   "StartAnalysisAfterExplodeTask"}
  /\ wf' = [wf EXCEPT !.state = "TIMED_OUT"]
  /\ UNCHANGED <<explode, source, listing, unit>>
  /\ UNCHANGED analysisVars


\* --------------------------------------------------------------- listing
\* The listing and the read loop of aggregate-results with the result keys
\* counted: `stored` keys under the prefix, `listed` of them returned by the
\* ListObjectsV2 call, `attempted` of those handed to GetObject.
IdleListing == [pc |-> "idle", stored |-> 0, listed |-> 0, attempted |-> 0]

\* The one ListObjectsV2 call of the handler; no key means the throw.
Listing_List ==
  /\ listing.pc = "list"
  /\ LET listed == Min(listing.stored, MaxKeys)
     IN  listing' = [listing EXCEPT
           !.listed = listed,
           !.pc = IF listed = 0 THEN "catch" ELSE "read"]
  /\ UNCHANGED <<wf, explode, source, unit>>
  /\ UNCHANGED analysisVars

\* One turn of `for (const file of resultFiles)`: a GetObject of the key.
Listing_Read ==
  /\ listing.pc = "read"
  /\ listing.attempted < listing.listed
  /\ listing' = [listing EXCEPT !.attempted = @ + 1]
  /\ UNCHANGED <<wf, explode, source, unit>>
  /\ UNCHANGED analysisVars

\* The loop is over: the metrics are computed from what was read.
Listing_Done ==
  /\ listing.pc = "read"
  /\ listing.attempted = listing.listed
  /\ listing' = [listing EXCEPT !.pc = "metrics"]
  /\ UNCHANGED <<wf, explode, source, unit>>
  /\ UNCHANGED analysisVars


\* ------------------------------------------------------------------- Spec
\* The input of an execution is any list of paths; a path that occurs twice
\* is analysed twice under the same result key.
Init ==
  /\ filePaths \in SeqsUpTo(Paths, MaxItems)
  /\ numPaths = Len(filePaths)
  /\ execState = "AnalyzeFilesMap"
  /\ dispatched = 0
  /\ inFlight = 0
  /\ iterSucceeded = 0
  /\ iterFailed = 0
  /\ aggregateInvoked = FALSE
  /\ inv = [i \in Items |-> IdleInv]
  /\ results = {}
  /\ lastWriter = [key \in AllResultKeys |->
                     [count |-> 0, output |-> NoVerdict, cause |-> ""]]
  /\ agg = IdleAgg
  /\ project_reports = <<>>
  /\ file_analysis = <<>>
  /\ projectExists \in BOOLEAN
  /\ wf = IdleWf
  /\ explode = IdleExplode
  /\ source = {}
  /\ listing = IdleListing
  /\ unit = IdleUnit

Next ==
  \/ MapStartIteration
  \/ \E i \in Items : AnalyzeFile_HandlerInPipeline(i)
  \/ \E i \in Items : AnalyzeFile_Timeout(i)
  \/ \E i \in Items : AnalyzeFileTaskSucceeded(i)
  \/ \E i \in Items : AnalyzeFileTaskFailed(i)
  \/ \E i \in Items : AnalyzeFileTaskAbandoned(i)
  \/ MapStateSucceeded
  \/ Aggregate_List
  \/ Aggregate_Read
  \/ Aggregate_Summarize
  \/ Aggregate_Project
  \/ Aggregate_InsertReport
  \/ Aggregate_InsertBatch
  \/ Aggregate_Backup
  \/ Aggregate_Catch
  \/ Aggregate_Timeout
  \/ AggregateTaskSucceeded
  \/ AggregateTaskFailed
  \/ ExecutionTimeout

Spec == Init /\ [][Next]_vars


\* ----------------------------------------------------------- SpecAnalysis
\* The analysis phase alone (AnalyzeFilesMap and its analyze-file runs), on
\* every input of the handler.
NextAnalysis ==
  \/ MapStartIteration
  \/ \E i \in Items : AnalyzeFile_Handler(i)
  \/ \E i \in Items : AnalyzeFile_Timeout(i)
  \/ \E i \in Items : AnalyzeFileTaskSucceeded(i)
  \/ \E i \in Items : AnalyzeFileTaskFailed(i)
  \/ \E i \in Items : AnalyzeFileTaskAbandoned(i)

InitAnalysis ==
  /\ Init
  /\ projectExists = TRUE

SpecAnalysis == InitAnalysis /\ [][NextAnalysis]_vars


\* ---------------------------------------------------------------- SpecMap
\* The AnalysisStateMachine over a list longer than maxConcurrency.  The
\* iterations are counted; a Lambda invocation is one step that ends in the
\* task's success or failure.
lambdaVars == <<filePaths, inv, results, lastWriter, agg>>

InitMap ==
  /\ numPaths \in 0 .. MaxPaths
  /\ filePaths = <<>>
  /\ execState = "AnalyzeFilesMap"
  /\ dispatched = 0
  /\ inFlight = 0
  /\ iterSucceeded = 0
  /\ iterFailed = 0
  /\ aggregateInvoked = FALSE
  /\ inv = [i \in Items |-> IdleInv]
  /\ results = {}
  /\ lastWriter = [key \in AllResultKeys |->
                     [count |-> 0, output |-> NoVerdict, cause |-> ""]]
  /\ agg = IdleAgg
  /\ project_reports = <<>>
  /\ file_analysis = <<>>
  /\ projectExists = TRUE
  /\ wf = IdleWf
  /\ explode = IdleExplode
  /\ source = {}
  /\ listing = IdleListing
  /\ unit = IdleUnit

\* AnalyzeFileTask of one more item is started.
MapIterationStarted ==
  /\ MapStart
  /\ UNCHANGED lambdaVars
  /\ UNCHANGED dbVars
  /\ UNCHANGED unpackVars

\* An analyze-file invocation returned.
MapIterationSucceeded ==
  /\ IterationSucceeded
  /\ UNCHANGED lambdaVars
  /\ UNCHANGED dbVars
  /\ UNCHANGED unpackVars

\* An analyze-file invocation timed out, or the invocation itself failed.
MapIterationFailed ==
  /\ IterationFailed
  /\ UNCHANGED lambdaVars
  /\ UNCHANGED dbVars
  /\ UNCHANGED unpackVars

\* Every iteration has succeeded: AggregateResultsTask invokes the Reducer.
MapCompleted ==
  /\ MapSucceeded
  /\ UNCHANGED lambdaVars
  /\ UNCHANGED dbVars
  /\ UNCHANGED unpackVars

\* The aggregate-results invocation returned, raised or timed out.
AggregateTaskEnded ==
  /\ \E outcome \in {"SUCCEEDED", "FAILED"} : AggregateEnded(outcome)
  /\ UNCHANGED lambdaVars
  /\ UNCHANGED dbVars
  /\ UNCHANGED unpackVars

NextMap ==
  \/ MapIterationStarted
  \/ MapIterationSucceeded
  \/ MapIterationFailed
  \/ MapCompleted
  \/ AggregateTaskEnded
  \/ ExecutionTimeout

SpecMap == InitMap /\ [][NextMap]_vars

\* ------------------------------------------------------------- SpecExplode
\* explode-repo alone, on every archive of the model, whole or defective.
\* No execution of the AnalysisStateMachine has been started.
AnalysisNotStarted ==
  /\ filePaths = <<>>
  /\ numPaths = 0
  /\ execState = "NOT_STARTED"
  /\ dispatched = 0
  /\ inFlight = 0
  /\ iterSucceeded = 0
  /\ iterFailed = 0
  /\ aggregateInvoked = FALSE
  /\ inv = [i \in Items |-> IdleInv]
  /\ results = {}
  /\ lastWriter = [key \in AllResultKeys |->
                     [count |-> 0, output |-> NoVerdict, cause |-> ""]]
  /\ agg = IdleAgg
  /\ project_reports = <<>>
  /\ file_analysis = <<>>
  /\ projectExists = TRUE

InitExplode ==
  /\ AnalysisNotStarted
  /\ wf = [IdleWf EXCEPT !.state = "ExplodeRepoTask"]
  /\ \E archive \in Archives : \E defect \in Defects(archive) :
       explode = [IdleExplode EXCEPT !.pc = "start", !.archive = archive,
                                     !.defect = defect]
  /\ source = {}
  /\ listing = IdleListing
  /\ unit = IdleUnit

NextExplode ==
  \/ Explode_Start
  \/ Explode_Entry
  \/ Explode_EntryRead
  \/ Explode_PipelineEnd
  \/ \E k \in 1 .. Len(explode.files) : Explode_PutObject(k)
  \/ Explode_Return
  \/ Explode_Timeout

SpecExplode == InitExplode /\ [][NextExplode]_vars


\* ------------------------------------------------------------ SpecWorkflow
\* A job from its submission: the CloneExplodeStateMachine, explode-repo and
\* the AnalysisStateMachine it starts.
InitWorkflow ==
  /\ AnalysisNotStarted
  /\ wf = IdleWf
  /\ \E archive \in JobArchives : \E defect \in Defects(archive) :
       explode = [IdleExplode EXCEPT !.archive = archive, !.defect = defect]
  /\ source = {}
  /\ listing = IdleListing
  /\ unit = IdleUnit

NextWorkflow ==
  \/ StartWorkflow_Handler
  \/ CloneRepoTask
  \/ ExplodeRepoTask
  \/ StartAnalysisAfterExplodeTask
  \/ CloneExplodeTimeout
  \/ NextExplode
  \/ Next

SpecWorkflow == InitWorkflow /\ [][NextWorkflow]_vars


\* ------------------------------------------------------------- SpecListing
\* aggregate-results on a prefix of any number of result keys.
InitListing ==
  /\ AnalysisNotStarted
  /\ wf = IdleWf
  /\ explode = IdleExplode
  /\ source = {}
  /\ \E stored \in 0 .. MaxStored :
       listing = [IdleListing EXCEPT !.pc = "list", !.stored = stored]
  /\ unit = IdleUnit

NextListing ==
  \/ Listing_List
  \/ Listing_Read
  \/ Listing_Done

SpecListing == InitListing /\ [][NextListing]_vars


\* ------------------------------------------------------------- SpecBatches
\* aggregate-results from the insert of its report row on, for a report of
\* any number of parsed Verdicts: the batch loop, the backup, the return.
UnitName(k) == <<"unit", k>>

BatchVerdicts(n) ==
  [k \in 1 .. n |->
     Verdict(UnitName(k), Num(5), FALSE, "none", Arr(<<Text("obs", "")>>))]

InitBatches ==
  \E n \in 1 .. MaxRecords :
    LET analyses == BatchVerdicts(n)
        allScores == [k \in 1 .. n |-> analyses[k].automation_score.val]
        summaryText == callBedrockForSummary(
                         generateSummaryPrompt(<<>>, allScores), "ai")
        report == [ReportData(analyses, allScores, summaryText) EXCEPT !.id = 1]
    IN  /\ filePaths = <<>>
        /\ numPaths = n
        /\ execState = "AggregateResultsTask"
        /\ dispatched = n
        /\ inFlight = 0
        /\ iterSucceeded = n
        /\ iterFailed = 0
        /\ aggregateInvoked = TRUE
        /\ inv = [i \in Items |-> DoneInv]
        /\ results = {[key |-> ResultKey(userId, projectId, jobExecutionId,
                                         UnitName(k)),
                       body |-> analyses[k]] : k \in 1 .. n}
        /\ lastWriter = [key \in AllResultKeys |->
                           [count |-> 0, output |-> NoVerdict, cause |-> ""]]
        /\ agg = [IdleAgg EXCEPT !.pc = "batches", !.analyses = analyses,
                                 !.allScores = allScores, !.summarizer = "ai",
                                 !.summaryText = summaryText,
                                 !.report = report, !.i = 0]
        /\ project_reports = <<report>>
        /\ file_analysis = <<>>
        /\ projectExists = TRUE
        /\ wf = IdleWf
        /\ explode = IdleExplode
        /\ source = {}
        /\ listing = IdleListing
        /\ unit = IdleUnit

NextBatches ==
  \/ Aggregate_InsertBatch
  \/ Aggregate_Backup
  \/ Aggregate_Catch
  \/ Aggregate_Timeout
  \/ AggregateTaskSucceeded
  \/ AggregateTaskFailed
  \/ ExecutionTimeout

SpecBatches == InitBatches /\ [][NextBatches]_vars


\* ------------------------------------------------------------ SpecTruncate
\* analyze-file on a unit of any length up to MaxContent characters.
InitTruncate ==
  /\ AnalysisNotStarted
  /\ wf = IdleWf
  /\ explode = IdleExplode
  /\ source = {}
  /\ listing = IdleListing
  /\ \E n \in 0 .. MaxContent :
       unit = [IdleUnit EXCEPT !.pc = "fetch", !.codeContent = Content(n)]

NextTruncate ==
  \/ Unit_Fetch
  \/ Unit_Prompt
  \/ Unit_CallBedrock

SpecTruncate == InitTruncate /\ [][NextTruncate]_vars


\* -------------------------------------------------------------- SpecPrefix
\* The keys of the results bucket as text, character by character, and the
\* listing of aggregate-results over a bucket that holds the Verdicts and
\* the backup reports of several users, projects and jobs.
startsWith(text, prefix) ==
  /\ Len(prefix) <= Len(text)
  /\ SubSeq(text, 1, Len(prefix)) = prefix

endsWith(text, suffix) ==
  /\ Len(suffix) <= Len(text)
  /\ SubSeq(text, Len(text) - Len(suffix) + 1, Len(text)) = suffix

analysis_results ==
  <<"a", "n", "a", "l", "y", "s", "i", "s", "-", "r", "e", "s", "u", "l", "t", "s">>

final_reports ==
  <<"f", "i", "n", "a", "l", "-", "r", "e", "p", "o", "r", "t", "s">>

master_report_json ==
  <<"m", "a", "s", "t", "e", "r", "-", "r", "e", "p", "o", "r", "t", ".", "j", "s", "o", "n">>

dot_json == <<".", "j", "s", "o", "n">>

\* resultKey of analyze-file:
\* `${userId}/${projectId}/analysis-results/${jobExecutionId}/${fileName}.json`
resultKey(event) ==
  event.userId \o <<"/">> \o event.projectId \o <<"/">> \o analysis_results
    \o <<"/">> \o event.jobExecutionId \o <<"/">> \o event.fileName \o dot_json

\* reportKey of aggregate-results:
\* `${userId}/${projectId}/final-reports/${jobExecutionId}/master-report.json`
reportKey(event) ==
  event.userId \o <<"/">> \o event.projectId \o <<"/">> \o final_reports
    \o <<"/">> \o event.jobExecutionId \o <<"/">> \o master_report_json

\* A prefix that ends with the job id.
resultsPrefixToJobId(event) ==
  event.userId \o <<"/">> \o event.projectId \o <<"/">> \o analysis_results
    \o <<"/">> \o event.jobExecutionId

\* resultsPrefix of aggregate-results:
\* `${userId}/${projectId}/analysis-results/${jobExecutionId}/`
resultsPrefix(event) ==
  event.userId \o <<"/">> \o event.projectId \o <<"/">> \o analysis_results
    \o <<"/">> \o event.jobExecutionId \o <<"/">>

\* The identifiers of the model: the one of the Reducer's job, a proper
\* prefix of it and an extension of it.  No identifier holds a "/".
UserIds == {<<"u", "1">>, <<"u">>, <<"u", "1", "2">>}
ProjectIds == {<<"p", "1">>, <<"p">>, <<"p", "1", "2">>}
JobExecutionIds == {<<"e", "1">>, <<"e">>, <<"e", "1", "2">>}
FileNames == {<<"a", ".", "t", "s">>, <<"s", "/", "a", ".", "j", "s", "o", "n">>}

\* The jobs, and the events of their analyze-file invocations.
JobEvents ==
  [userId : UserIds, projectId : ProjectIds, jobExecutionId : JobExecutionIds]

AnalysisEvents ==
  [userId : UserIds, projectId : ProjectIds, jobExecutionId : JobExecutionIds,
   fileName : FileNames]

\* The event of the aggregate-results run that is followed.
ReducerEvent ==
  [userId |-> <<"u", "1">>, projectId |-> <<"p", "1">>,
   jobExecutionId |-> <<"e", "1">>]

\* The body of a stored object: the handler that wrote it and its event.
WrittenBy(handlerName, event) == [writer |-> handlerName, event |-> event]

\* The run: idle -> list -> read -> metrics.  resultFiles are the keys the
\* listing returned and the loop has not visited; analyses are the bodies
\* the loop has read.
IdlePrefix == [pc |-> "idle", resultFiles |-> {}, analyses |-> {}]

prefixFrame ==
  <<filePaths, numPaths, execState, dispatched, inFlight, iterSucceeded,
    iterFailed, aggregateInvoked, inv, lastWriter, agg, project_reports,
    file_analysis, projectExists, wf, explode, source, unit>>

\* An analyze-file run of any job stores its Verdict (either PutObject of
\* the handler, both under resultKey).
Prefix_AnalyzeFilePut(event) ==
  /\ Cardinality({o.key : o \in results} \cup {resultKey(event)}) <= MaxObjects
  /\ results' = PutObject(results, resultKey(event),
                          WrittenBy("analyze-file", event))
  /\ UNCHANGED listing
  /\ UNCHANGED prefixFrame

\* An aggregate-results run of any job stores its backup report.
Prefix_ReportPut(event) ==
  /\ Cardinality({o.key : o \in results} \cup {reportKey(event)}) <= MaxObjects
  /\ results' = PutObject(results, reportKey(event),
                          WrittenBy("aggregate-results", event))
  /\ UNCHANGED listing
  /\ UNCHANGED prefixFrame

\* The run of ReducerEvent is invoked.
Prefix_Invoke ==
  /\ listing.pc = "idle"
  /\ listing' = [listing EXCEPT !.pc = "list"]
  /\ UNCHANGED results
  /\ UNCHANGED prefixFrame

\* ListObjectsV2 with Prefix: resultsPrefix, then the filter on '.json'.
\* No key means the throw.
Prefix_List ==
  /\ listing.pc = "list"
  /\ LET Contents == {o.key : o \in {b \in results :
                        startsWith(b.key, resultsPrefix(ReducerEvent))}}
         resultFiles == {key \in Contents : endsWith(key, dot_json)}
     IN  listing' = [listing EXCEPT
           !.resultFiles = resultFiles,
           !.pc = IF resultFiles = {} THEN "catch" ELSE "read"]
  /\ UNCHANGED results
  /\ UNCHANGED prefixFrame

\* One turn of `for (const file of resultFiles)`: the GetObject of the key
\* yields the object that is stored under it now, or fails.
Prefix_Read ==
  /\ listing.pc = "read"
  /\ \E key \in listing.resultFiles :
       \/ \E o \in ObjectsAt(results, key) :
            listing' = [listing EXCEPT !.resultFiles = @ \ {key},
                                       !.analyses = @ \cup {o.body}]
       \/ listing' = [listing EXCEPT !.resultFiles = @ \ {key}]
  /\ UNCHANGED results
  /\ UNCHANGED prefixFrame

\* The loop is over: the metrics are computed from what was read.
Prefix_Done ==
  /\ listing.pc = "read"
  /\ listing.resultFiles = {}
  /\ listing' = [listing EXCEPT !.pc = "metrics"]
  /\ UNCHANGED results
  /\ UNCHANGED prefixFrame

InitPrefix ==
  /\ filePaths = <<>>
  /\ numPaths = 0
  /\ execState = "NOT_STARTED"
  /\ dispatched = 0
  /\ inFlight = 0
  /\ iterSucceeded = 0
  /\ iterFailed = 0
  /\ aggregateInvoked = FALSE
  /\ inv = [i \in Items |-> IdleInv]
  /\ results = {}
  /\ lastWriter = [key \in AllResultKeys |->
                     [count |-> 0, output |-> NoVerdict, cause |-> ""]]
  /\ agg = IdleAgg
  /\ project_reports = <<>>
  /\ file_analysis = <<>>
  /\ projectExists = TRUE
  /\ wf = IdleWf
  /\ explode = IdleExplode
  /\ source = {}
  /\ listing = IdlePrefix
  /\ unit = IdleUnit

NextPrefix ==
  \/ \E event \in AnalysisEvents : Prefix_AnalyzeFilePut(event)
  \/ \E event \in JobEvents : Prefix_ReportPut(event)
  \/ Prefix_Invoke
  \/ Prefix_List
  \/ Prefix_Read
  \/ Prefix_Done

SpecPrefix == InitPrefix /\ [][NextPrefix]_vars

\* ================================================================ properties
Ended == execState \in {"SUCCEEDED", "FAILED", "TIMED_OUT"}

ResultObjects == {o \in results : o.key \in AllResultKeys}

\* C1 (Spec).  When an aggregate-results invocation has finished by returning,
\* exactly one row of project_reports has been inserted for the job: never
\* none, never two, whichever step of the handler failed.
C1_ExactlyOneReportRow ==
  agg.pc = "returned" => Len(project_reports) = 1

\* C2 (SpecMap).  When an iteration of AnalyzeFilesMap has failed at the level
\* of the state machine (the Lambda timed out or the invocation failed), the
\* execution does not end before every item was dispatched and the Reducer
\* was invoked.
C2_FailedUnitStillReachesReducer ==
  (iterFailed > 0 /\ Ended) => (dispatched = numPaths /\ aggregateInvoked)

\* C3 (SpecMap).  When the 30 minutes of the state machine pass while
\* iterations are still running, the execution does not end without the
\* Reducer having been invoked.
C3_DeadlineStillRunsReducer ==
  (execState = "TIMED_OUT" /\ inFlight > 0) => aggregateInvoked

\* The errors of the steps C4 does not speak of: the listing, the summary,
\* the project row, the database being down, the backup.
OtherStepFailures ==
  {"S3 ListObjectsV2 failed", "TypeError: cannot read properties of undefined",
   "Failed to create project", "Failed to create project report: database error",
   "S3 PutObject failed"}

\* C4 (Spec).  When the Reducer has read and parsed M of the N results,
\* 1 <= M < N, and no other step failed, it finishes by returning the success
\* report with total_files = M, and that report is a row of project_reports.
C4_PartialResultsGiveSuccessReport ==
  ( /\ agg.pc \in {"returned", "raised"}
    /\ agg.parsed >= 1
    /\ agg.parsed < numPaths
    /\ agg.error \notin OtherStepFailures )
  => ( /\ agg.pc = "returned"
       /\ agg.error = ""
       /\ agg.output.total_files = agg.parsed
       /\ \E k \in 1 .. Len(project_reports) : project_reports[k] = agg.output )

\* C5 (SpecMap).  At every moment at most 50 AnalyzeFileTask iterations are
\* running, however long the list is.
C5_AtMostFiftyInFlight ==
  inFlight <= 50

C5_Witness ==
  /\ inFlight = 50
  /\ dispatched < numPaths
  /\ numPaths > 50

\* C6 (SpecAnalysis).  Every Verdict stored under a result key has a numeric
\* automation_score between 0 and 10.
C6_StoredScoreInRange ==
  \A o \in ResultObjects :
    /\ o.body.automation_score.type = "number"
    /\ o.body.automation_score.val >= 0
    /\ o.body.automation_score.val <= 10

C6_Witness ==
  \E key \in AllResultKeys :
    /\ lastWriter[key].cause = "Invalid automation_score in AI response"
    /\ ObjectsAt(results, key) # {}
    /\ \E o \in ResultObjects : o.body.automation_score.val = 10

\* C7 (Spec).  Every row of project_reports has 0 <= overall_score <= 100,
\* 0 <= average_score <= 10 (100 tenths), and overall_score equal to
\* round(average_score * 10), which is average_score counted in tenths.
C7_ReportScoresInRange ==
  \A k \in 1 .. Len(project_reports) :
    LET r == project_reports[k] IN
      /\ r.overall_score.type = "number"
      /\ r.average_score.type = "number"
      /\ 0 <= r.overall_score.val /\ r.overall_score.val <= 100
      /\ 0 <= r.average_score.val /\ r.average_score.val <= 100
      /\ r.overall_score.val = r.average_score.val

C7_Witness ==
  \E k \in 1 .. Len(project_reports) :
    /\ project_reports[k].total_files = 2
    /\ project_reports[k].overall_score.val = 75

\* The failed analysis result as the claim words it: the path, score 0,
\* has_tests false, test_type none, one observation that names the cause.
IsFailureVerdict(body, path, cause) ==
  /\ body.file_name = path
  /\ body.automation_score = [type |-> "number", val |-> 0, items |-> <<>>]
  /\ body.has_tests = FALSE
  /\ body.test_type = "none"
  /\ body.observations.type = "array"
  /\ Len(body.observations.items) = 1
  /\ body.observations.items[1] = <<"Analysis failed: ", cause>>

FailureCauses ==
  {"S3 GetObject failed", "Empty file stream received from S3",
   "Bedrock invocation failed", "Invalid JSON response from AI",
   "TypeError: cannot read properties of null",
   "Invalid automation_score in AI response"}

C9_Original ==
  \A i \in Items : inv[i].pc = "returned" => inv[i].puts = 1

\* C9 amended (SpecAnalysis).  Every analyze-file run that has returned issued
\* exactly one PutObject, except a run whose PutObject of the analysis result
\* failed: that run issued two, the second one of the failed result.
C9_OneWriteOrRetry ==
  \A i \in Items :
    inv[i].pc = "returned" => inv[i].puts = (IF inv[i].retried THEN 2 ELSE 1)

C9_Witness ==
  \E i \in Items : inv[i].pc = "returned" /\ inv[i].retried /\ inv[i].puts = 2

\* C10 (SpecAnalysis).  Under every result key there is at most one object;
\* once a write landed there is exactly one, and its body is what the run of
\* the last write landed returned.
C10_LastWriteWins ==
  \A key \in AllResultKeys :
    /\ Cardinality(ObjectsAt(results, key)) <= 1
    /\ lastWriter[key].count = 0 => ObjectsAt(results, key) = {}
    /\ lastWriter[key].count > 0 =>
         ObjectsAt(results, key) = {[key |-> key, body |-> lastWriter[key].output]}

C10_Witness ==
  \E key \in AllResultKeys :
    /\ lastWriter[key].count = 2
    /\ Cardinality(ObjectsAt(results, key)) = 1

\* The segments of a path: what stands between its "/".
PathSegments(p) ==
  LET cuts == {0} \cup {k \in 1 .. Len(p) : p[k] = "/"} \cup {Len(p) + 1}
  IN  {SubSeq(p, c[1] + 1, c[2] - 1) :
         c \in {d \in cuts \X cuts :
                  /\ d[1] < d[2]
                  /\ ~ \E m \in cuts : d[1] < m /\ m < d[2]}}

\* The inclusion policy by segments: a regular file, no segment of the
\* lower-cased path an excluded directory name, the lower-cased extension
\* empty or in the allow-list.
SurvivesBySegments(entry) ==
  /\ entry.type = "File"
  /\ PathSegments(toLowerCase(entry.path)) \cap
       {toLowerCase(dir) : dir \in ExcludedDirNames} = {}
  /\ toLowerCase(extname(entry.path)) \in {<<>>} \cup INCLUDE_EXTENSIONS

\* The keys of the entries onentry has kept so far.
KeptKeys ==
  {explode.reading[k] : k \in 1 .. Len(explode.reading)} \cup
  {explode.files[k] : k \in 1 .. Len(explode.files)}

\* C11 (SpecExplode).  While the archive is read, an entry handed to onentry
\* has been kept if and only if it is a regular file, no segment of its
\* lower-cased path is an excluded directory name, and its lower-cased
\* extension is empty or in the allow-list.
C11_KeptIffPolicyBySegments ==
  explode.pc = "pipeline" =>
    \A k \in 1 .. explode.idx :
      SourceKey(userId, projectId, explode.archive[k].path) \in KeptKeys
        <=> SurvivesBySegments(explode.archive[k])

\* The paths of the archive, in archive order, whose entry passed onentry and
\* whose object is in the bucket.
WrittenPaths ==
  LET paths == [k \in 1 .. Len(explode.archive) |-> explode.archive[k].path]
  IN  SelectSeq(paths, LAMBDA path :
        SourceKey(userId, projectId, path) \in source)

NoAnalysisInvocation ==
  /\ \A i \in Items : inv[i].pc = "idle"
  /\ ~ aggregateInvoked
  /\ agg.pc = "idle"

\* C13 (SpecWorkflow).  When the archive is malformed (a corrupt gzip stream
\* or a corrupt tar frame), explode-repo does not return a path list, no
\* object is written to the bucket and no analyze-file or aggregate-results
\* invocation is made for the job.
C13_MalformedArchiveIsFatal ==
  explode.defect.kind # "none" =>
    /\ explode.pc # "returned"
    /\ source = {}
    /\ NoAnalysisInvocation

\* No entry of the archive passes onentry.
NoEntryIncluded ==
  \A k \in 1 .. Len(explode.archive) : ~ Included(explode.archive[k])

\* C14 (SpecWorkflow).  When no entry of the archive passes the inclusion
\* policy, the job stops before the AnalysisStateMachine is started: no
\* analyze-file invocation, no aggregate-results invocation and no row of
\* project_reports, of success or of failure.
C14_NothingToAnalyzeHalts ==
  (NoEntryIncluded /\ wf.state # "NOT_STARTED") =>
    /\ execState = "NOT_STARTED"
    /\ NoAnalysisInvocation
    /\ project_reports = <<>>

\* C15 (SpecWorkflow).  When the job was submitted with autoStartAnalysis
\* false and explode-repo has returned, the CloneExplodeStateMachine
\* execution does not fail, and no analyze-file or aggregate-results
\* invocation is made for the job.
C15_NoAutoStartStopsWithoutError ==
  (wf.state # "NOT_STARTED" /\ ~ wf.autoStartAnalysis
     /\ explode.pc = "returned") =>
    /\ wf.state # "FAILED"
    /\ execState = "NOT_STARTED"
    /\ NoAnalysisInvocation

\* The scores of the parsed Verdicts, one of each.
VerdictScores(analyses) ==
  [k \in 1 .. Len(analyses) |-> analyses[k].automation_score.val]

\* C16 (Spec).  The success report the Reducer has inserted carries the
\* statistics of the Verdicts it parsed: total_files their number,
\* files_with_tests the number of those with has_tests true, average_score
\* the mean of their scores rounded to one decimal, overall_score the mean
\* times 10 rounded to the nearest integer.
C16_ReportStatistics ==
  agg.pc = "batches" =>
    /\ agg.report.total_files = Len(agg.analyses)
    /\ agg.report.files_with_tests = FilesWithTests(agg.analyses)
    /\ agg.report.average_score = AverageScore(VerdictScores(agg.analyses))
    /\ agg.report.overall_score = OverallScore(VerdictScores(agg.analyses))

\* The error of `aiSummary.summary.join` on an answer without summary array.
SummaryError == "TypeError: cannot read properties of undefined"

\* C17 (Spec).  Whatever the summarizer does, the Reducer does not fail on
\* the summary: its catch block is never entered with the error of the
\* summary step, and no failure report of that error is inserted.
C17_SummarizerNeverFailsTheReport ==
  /\ agg.error # SummaryError
  /\ \A k \in 1 .. Len(project_reports) :
       project_reports[k].summary # FailureReport(SummaryError).summary

\* The first line the claim gives to a mean, in tenths; a mean that is not a
\* number is below every threshold.
FirstLineOf(mean) ==
  IF IsNumber(mean) /\ mean.val >= 80
  THEN Text("Strong test automation maturity across the codebase", "")
  ELSE IF IsNumber(mean) /\ mean.val >= 60
  THEN Text("Moderate test automation coverage with room for improvement", "")
  ELSE Text("Test automation needs significant enhancement", "")

\* C18 (Spec).  When the summarizer call threw or its answer was not JSON,
\* the summary of the report the Reducer inserts has 2 to 4 lines, and its
\* first line is the line of the computed mean: strong from 8, moderate
\* from 6, needs improvement below.
C18_FallbackSummary ==
  (agg.pc = "batches" /\ agg.summarizer \in {"fallback", "mixed"}) =>
    /\ Len(agg.report.summary) \in 2 .. 4
    /\ agg.report.summary[1] = FirstLineOf(agg.report.average_score)

NoResultsError == "No analysis results found to aggregate"

\* C19 (Spec).  When the Reducer found no result key under the prefix of the
\* job, it fails: no success report and no detail row is inserted, the
\* invocation does not return a report, and the execution does not succeed.
C19_NoResultsIsFailure ==
  agg.error = NoResultsError =>
    /\ agg.summarizer = ""
    /\ \A k \in 1 .. Len(project_reports) : project_reports[k].total_files = 0
    /\ file_analysis = <<>>
    /\ agg.pc # "returned"
    /\ execState # "SUCCEEDED"

\* C20 (SpecListing).  When the read loop of the Reducer is over, it has
\* attempted to read as many keys as there are result keys under the prefix
\* of the job, however many there are.
C20_EveryStoredKeyIsRead ==
  listing.pc = "metrics" => listing.attempted = listing.stored

\* C21 (Spec).  Once aggregate-results has been invoked, every path of the
\* list has been dispatched and no analyze-file invocation of the job is
\* still in flight: no step of the Reducer happens beside a running Unit
\* Analyzer.
C21_ReducerAfterEveryAnalyzer ==
  (aggregateInvoked \/ agg.pc # "idle") =>
    /\ dispatched = numPaths
    /\ filePaths = <<>>
    /\ inFlight = 0
    /\ \A i \in Items : inv[i].pc \in {"idle", "done"}

\* The Reducer reads the results of a list of two paths, both analysed.
C21_Witness ==
  /\ agg.pc = "read"
  /\ numPaths = 2
  /\ iterSucceeded = 2
  /\ \A i \in 1 .. 2 : inv[i].pc = "done"

\* The fields of a Verdict other than the score, as the schema wants them.
ConformsToSchema(verdict) ==
  /\ verdict.test_type \in {"unit", "integration", "e2e", "none"}
  /\ verdict.has_tests \in BOOLEAN
  /\ IsIterable(verdict.observations)
  /\ IsIterable(verdict.improvement_suggestions)

\* C22 (SpecAnalysis).  Every Verdict in the results bucket conforms to the
\* schema: test_type one of unit, integration, e2e, none, has_tests a
\* boolean, observations and improvement suggestions lists.
C22_StoredVerdictConforms ==
  \A o \in ResultObjects : ConformsToSchema(o.body)

\* The position in the list of parsed Verdicts at which a batch of detail
\* rows begins (counted from 0), read off the unit of its first row.
BatchOffset(batch) == batch[1].file_path[2] - 1

\* A batch is a run of the rows of consecutive Verdicts, one row each, that
\* reference the report.
IsRunOfRows(batch) ==
  \A k \in 1 .. Len(batch) :
    /\ batch[k].file_path = UnitName(BatchOffset(batch) + k)
    /\ batch[k].report_id = project_reports[1].id

\* C23 (SpecBatches).  The batches of detail rows the Reducer has inserted
\* are runs of consecutive rows, one row per parsed Verdict and each with
\* the id of the report; a batch has at most 50 rows and begins at a
\* multiple of 50, so that all but the last have exactly 50; the batches
\* come in order without a row twice; a failed insert of a batch is not an
\* error of the Reducer, which goes on to the end of the list.
C23_DetailBatches ==
  /\ \A b \in 1 .. Len(file_analysis) :
       LET batch == file_analysis[b] IN
         /\ Len(batch) \in 1 .. 50
         /\ IsRunOfRows(batch)
         /\ BatchOffset(batch) % 50 = 0
         /\ Len(batch) = Min(50, numPaths - BatchOffset(batch))
         /\ b > 1 => BatchOffset(file_analysis[b - 1]) < BatchOffset(batch)
  /\ agg.error \in {"", "S3 PutObject failed"}
  /\ agg.pc = "returned" /\ agg.error = "" => agg.output = project_reports[1]

\* A report of 101 Verdicts: the second batch failed, the first and the
\* third, of one row, are in the table, and the report was returned.
C23_Witness ==
  /\ numPaths = 101
  /\ agg.pc = "returned"
  /\ agg.error = ""
  /\ Len(file_analysis) = 2
  /\ Len(file_analysis[1]) = 50
  /\ Len(file_analysis[2]) = 1
  /\ BatchOffset(file_analysis[2]) = 100

\* C24 (SpecTruncate).  The content the classifier is invoked with is the
\* unit's content unchanged when that has at most 50,000 characters, and
\* its first 50,000 characters followed by the truncation marker otherwise;
\* the classifier is never sent more than 50,000 characters of content.
C24_ContentTruncatedBeforeCall ==
  /\ unit.sent.chars <= 50000
  /\ unit.pc = "called" =>
       IF unit.codeContent.chars <= 50000
       THEN unit.sent = unit.codeContent
       ELSE unit.sent = [chars |-> 50000, marker |-> TRUE]

\* A unit of 50,001 characters was sent as 50,000 characters and the marker.
C24_Witness ==
  /\ unit.pc = "called"
  /\ unit.codeContent.chars = 50001
  /\ unit.sent = [chars |-> 50000, marker |-> TRUE]

\* The PutObject calls of the upload phase that were sent and have not
\* settled.
WritesInFlight ==
  Cardinality({k \in DOMAIN explode.uploads : explode.uploads[k] = "pending"})

\* The most entries an archive of the model keeps.
MostKept ==
  LET kept(a) == Cardinality({k \in 1 .. Len(a) : Included(a[k])})
  IN  CHOOSE m \in 0 .. MaxEntries + Len(ScenarioArchive) :
        /\ \E a \in Archives : kept(a) = m
        /\ \A a \in Archives : kept(a) <= m

\* C25 (SpecExplode).  While the Unpacker uploads, the writes in flight are
\* held under a limit that is the same for every archive: they stay below
\* the number of entries that the largest archive keeps, whatever the
\* archive.
C25_WritesInFlightBounded ==
  explode.pc = "upload" => WritesInFlight < MostKept

\* The payload AnalyzeFileTask builds for the item `path` of the list:
\* fileName is the item, the identifiers are those of the execution.
AnalyzeFileTaskPayload(path) ==
  [fileName |-> path, userId |-> userId, projectId |-> projectId,
   jobExecutionId |-> jobExecutionId]

\* The event of the analyze-file invocation i.
Event(i) == AnalyzeFileTaskPayload(inv[i].fileName)

\* A GetObjectCommand without a Key.
NoKey == <<>>

\* event.fileKey, the Key of the handler's GetObjectCommand: the field of
\* the event, undefined when the event has no such field.
fileKey(event) ==
  IF "fileKey" \in DOMAIN event THEN event.fileKey ELSE NoKey

\* C26 (SpecWorkflow).  The key an analyze-file invocation asks the source
\* bucket for is the key under which explode-repo wrote the entry of the
\* invocation's path: userId/projectId/relative path.
C26_AnalyzerFetchesWrittenKey ==
  \A i \in Items :
    Running(i) =>
      fileKey(Event(i)) = SourceKey(userId, projectId, inv[i].fileName)

\* The fileName of the event whose run wrote under the result key.
UnitOfKey(key) == key[5]

\* C27 (SpecAnalysis).  The Verdict stored under the result key of a unit
\* names that unit in file_name, whether the try block or the catch block
\* of analyze-file wrote it.
C27_StoredVerdictNamesItsUnit ==
  \A o \in ResultObjects : o.body.file_name = UnitOfKey(o.key)

\* C28 (Spec).  In the read loop of aggregate-results and after it,
\* analyses and allScores have the same length and allScores[k] is the
\* score of analyses[k]: a key whose turn of the loop fails adds to neither.
C28_AnalysesAndScoresCorrespond ==
  /\ Len(agg.analyses) = Len(agg.allScores)
  /\ \A k \in 1 .. Len(agg.analyses) :
       agg.allScores[k] = agg.analyses[k].automation_score.val

\* The Verdicts the analyze-file runs of the Reducer's own job wrote.
OwnVerdicts ==
  {WrittenBy("analyze-file", event) :
     event \in {e \in AnalysisEvents :
                  /\ e.userId = ReducerEvent.userId
                  /\ e.projectId = ReducerEvent.projectId
                  /\ e.jobExecutionId = ReducerEvent.jobExecutionId}}

\* C29 (SpecPrefix).  What the Reducer of job J lists and reads are
\* Verdicts that analyze-file runs with J's user id, project id and job id
\* wrote: no Verdict of another user, project or job, also of one whose id
\* J's id is a proper prefix of, and no backup report.
C29_ReducerReadsOwnVerdictsOnly ==
  /\ listing.analyses \subseteq OwnVerdicts
  /\ \A key \in listing.resultFiles :
       \E v \in OwnVerdicts : key = resultKey(v.event)

\* The Reducer of job e1 read its Verdict of a.ts while the bucket held the
\* Verdict of job e12 for the same file.
C29_Witness ==
  /\ listing.pc = "metrics"
  /\ listing.analyses # {}
  /\ \E o \in results :
       /\ o.body.writer = "analyze-file"
       /\ o.body.event.userId = ReducerEvent.userId
       /\ o.body.event.projectId = ReducerEvent.projectId
       /\ o.body.event.jobExecutionId = <<"e", "1", "2">>

====
